---- MODULE Spec2Model ----
(***************************************************************************)
(* Scoped virtual filesystem (TaskVFS) and host tool dispatch (HostTools)  *)
(* of sequential-runner, modelled from src/taskcode/vfs.js (the second,    *)
(* canonical class, lines 266-663) and src/taskcode/host-tools.js (the     *)
(* second class, lines 98-327).                                            *)
(*                                                                         *)
(* Strings are sequences of one-character strings, so that path.join, the  *)
(* startsWith containment test and the text encodings are computed on      *)
(* characters, as the code computes them.  The store is a partial function *)
(* from absolute paths (sequences of segments) to nodes.                   *)
(***************************************************************************)
EXTENDS Integers, Sequences, FiniteSets, TLC

VARIABLES fs, result, watchers, inflight

vars == <<fs, result, watchers, inflight>>

----------------------------------------------------------------------------
(* Strings *)

\* A local constant: Body of the value, which is computed once
With(value, Body(_)) == Body(value)

Last(s) == s[Len(s)]

Front(s) == SubSeq(s, 1, Len(s) - 1)

\* String.prototype.startsWith
StartsWith(s, p) == Len(p) <= Len(s) /\ SubSeq(s, 1, Len(p)) = p

\* String.prototype.trim() === '' for the characters of the model
IsBlank(s) == \A i \in 1..Len(s) : s[i] = " "

\* str.split('/'): the pieces between separators, empty pieces included
RECURSIVE SplitFrom(_, _, _)
SplitFrom(s, i, cur) ==
  IF i > Len(s) THEN <<cur>>
  ELSE IF s[i] = "/" THEN <<cur>> \o SplitFrom(s, i + 1, <<>>)
  ELSE SplitFrom(s, i + 1, Append(cur, s[i]))

Split(s) == SplitFrom(s, 1, <<>>)

\* segs.join('/')
RECURSIVE JoinSep(_)
JoinSep(segs) ==
  IF segs = <<>> THEN <<>>
  ELSE IF Len(segs) = 1 THEN segs[1]
  ELSE segs[1] \o <<"/">> \o JoinSep(Tail(segs))

----------------------------------------------------------------------------
(* node:path (posix) *)

Dot == <<".">>

DotDot == <<".", ".">>

\* normalizeString: drops "" and ".", resolves ".." against the segments kept so
\* far; above the root ".." is dropped (absolute) or kept (relative)
RECURSIVE NormSegs(_, _, _)
NormSegs(segs, acc, allowAboveRoot) ==
  IF segs = <<>> THEN acc
  ELSE LET s == Head(segs) IN
    IF s = <<>> \/ s = Dot THEN NormSegs(Tail(segs), acc, allowAboveRoot)
    ELSE IF s = DotDot THEN
      IF acc # <<>> /\ Last(acc) # DotDot
        THEN NormSegs(Tail(segs), Front(acc), allowAboveRoot)
      ELSE IF allowAboveRoot
        THEN NormSegs(Tail(segs), Append(acc, s), allowAboveRoot)
      ELSE NormSegs(Tail(segs), acc, allowAboveRoot)
    ELSE NormSegs(Tail(segs), Append(acc, s), allowAboveRoot)

\* path.normalize
PathNormalize(p) ==
  IF p = <<>> THEN Dot
  ELSE LET isAbsolute == p[1] = "/"
           trailing   == Last(p) = "/"
           body       == JoinSep(NormSegs(Split(p), <<>>, ~isAbsolute))
       IN IF body = <<>>
            THEN (IF isAbsolute THEN <<"/">>
                  ELSE IF trailing THEN <<".", "/">> ELSE Dot)
          ELSE (IF isAbsolute THEN <<"/">> ELSE <<>>) \o body
               \o (IF trailing THEN <<"/">> ELSE <<>>)

\* path.join: the non-empty arguments joined by "/" and normalized
RECURSIVE JoinArgs(_)
JoinArgs(args) ==
  IF args = <<>> THEN <<>>
  ELSE IF Head(args) = <<>> THEN JoinArgs(Tail(args))
  ELSE LET rest == JoinArgs(Tail(args)) IN
       IF rest = <<>> THEN Head(args) ELSE Head(args) \o <<"/">> \o rest

PathJoin(args) == PathNormalize(JoinArgs(args))

\* The store's key of a path string: its segments (the kernel's own lookup)
KeyOf(p) == NormSegs(Split(p), <<>>, FALSE)

HasTrailingSep(p) == Len(p) > 1 /\ Last(p) = "/"

\* An absolute path as the operations use it: its text, the key under which the
\* store holds it, and whether the text ends with a separator
PathOf(str) == [str |-> str, key |-> KeyOf(str), trailing |-> HasTrailingSep(str)]

\* path.dirname of an absolute normalized path
PathDirname(p) ==
  IF Len(p.key) <= 1 THEN [str |-> <<"/">>, key |-> <<>>, trailing |-> FALSE]
  ELSE [str |-> <<"/">> \o JoinSep(Front(p.key)), key |-> Front(p.key),
        trailing |-> FALSE]

----------------------------------------------------------------------------
(* Text encodings of Buffer: characters are UTF-16 code units, a byte is a  *)
(* pair of hexadecimal digits.                                              *)

HexDigits == {"0", "1", "2", "3", "4", "5", "6", "7", "8", "9",
              "a", "b", "c", "d", "e", "f"}

\* A lone surrogate code unit, and U+FFFD which replaces it in UTF-8
LoneSurrogate == "\\uD800"

Replacement == "\\uFFFD"

ReplacementBytes == << <<"e", "f">>, <<"b", "f">>, <<"b", "d">> >>

\* The ASCII characters of the model and their code points
AsciiTable ==
  [c \in {"1", "3", "5", "6", "7", "a", "b", "d", "e", "f", "z", "[", "]"} |->
     CASE c = "1" -> <<"3", "1">>  [] c = "3" -> <<"3", "3">>
       [] c = "5" -> <<"3", "5">>  [] c = "6" -> <<"3", "6">>
       [] c = "7" -> <<"3", "7">>  [] c = "a" -> <<"6", "1">>
       [] c = "b" -> <<"6", "2">>  [] c = "d" -> <<"6", "4">>
       [] c = "e" -> <<"6", "5">>  [] c = "f" -> <<"6", "6">>
       [] c = "z" -> <<"7", "a">>  [] c = "[" -> <<"5", "b">>
       [] c = "]" -> <<"5", "d">>]

\* Buffer.from(text, 'utf8'): a lone surrogate is written as U+FFFD
RECURSIVE Utf8Encode(_)
Utf8Encode(text) ==
  IF text = <<>> THEN <<>>
  ELSE LET c == Head(text) IN
       (IF c \in {LoneSurrogate, Replacement} THEN ReplacementBytes
        ELSE <<AsciiTable[c]>>) \o Utf8Encode(Tail(text))

\* buf.toString('utf8')
RECURSIVE Utf8Decode(_)
Utf8Decode(bytes) ==
  IF bytes = <<>> THEN <<>>
  ELSE IF Len(bytes) >= 3 /\ SubSeq(bytes, 1, 3) = ReplacementBytes
    THEN <<Replacement>> \o Utf8Decode(SubSeq(bytes, 4, Len(bytes)))
  ELSE LET b == Head(bytes) IN
       (IF \E c \in DOMAIN AsciiTable : AsciiTable[c] = b
          THEN <<CHOOSE c \in DOMAIN AsciiTable : AsciiTable[c] = b>>
        ELSE <<Replacement>>) \o Utf8Decode(Tail(bytes))

\* Buffer.from(text, 'hex'): pairs of hex digits, stopping at the first pair
\* that is not one; an odd last digit is dropped
RECURSIVE HexEncode(_)
HexEncode(text) ==
  IF Len(text) < 2 THEN <<>>
  ELSE IF text[1] \in HexDigits /\ text[2] \in HexDigits
    THEN <<SubSeq(text, 1, 2)>> \o HexEncode(SubSeq(text, 3, Len(text)))
  ELSE <<>>

\* buf.toString('hex')
RECURSIVE HexDecode(_)
HexDecode(bytes) ==
  IF bytes = <<>> THEN <<>> ELSE Head(bytes) \o HexDecode(Tail(bytes))

\* An encoder that takes every encoding for utf8
Encode_Utf8Only(text, encoding) == Utf8Encode(text)

Encode(text, encoding) ==
  IF encoding = "hex" THEN HexEncode(text) ELSE Utf8Encode(text)

Decode(bytes, encoding) ==
  IF encoding = "hex" THEN HexDecode(bytes) ELSE Utf8Decode(bytes)

\* Content values of a call: a string, or a structured value (the empty array)
StringContent(text) == [type |-> "string", text |-> text]

ArrayContent == [type |-> "object", text |-> <<>>]

\* JSON.stringify(content, null, 2) of the structured value
JSONStringify(content) == <<"[", "]">>

----------------------------------------------------------------------------
(* TaskVFS: construction *)

\* new TaskVFS(ecosystemPath, taskId, runId)
ecosystemPath == <<"/", "e">>

taskId == <<"T">>

runId == <<"R">>

ScopeNames == {"run", "task", "global"}

\* this.scopes = { run: path.join(...), task: path.join(...), global: ... }
ScopesOf(eco, tid, rid) ==
  [run    |-> PathJoin(<<eco, <<"t", "a", "s", "k", "s">>, tid,
                         <<"r", "u", "n", "s">>, rid, <<"f", "s">> >>),
   task   |-> PathJoin(<<eco, <<"t", "a", "s", "k", "s">>, tid,
                         <<"f", "s">> >>),
   global |-> PathJoin(<<eco, <<"v", "f", "s">>,
                         <<"g", "l", "o", "b", "a", "l">> >>)]

\* this.scopes of the instance whose tools the task calls
scopes == ScopesOf(ecosystemPath, taskId, runId)

----------------------------------------------------------------------------
(* node:fs on the store.  fs maps the key of every present path to its node; *)
(* a directory has no data.  Every primitive returns the error it raises    *)
(* ("none" when it succeeds).                                               *)

DirNode == [isDir |-> TRUE, data |-> <<>>]

FileNode(bytes) == [isDir |-> FALSE, data |-> bytes]

Present(store, key) == key \in DOMAIN store

IsDirAt(store, key) == Present(store, key) /\ store[key].isDir

IsFileAt(store, key) == Present(store, key) /\ ~store[key].isDir

Prefixes(key) == {SubSeq(key, 1, n) : n \in 0..Len(key)}

IsPrefix(a, b) == Len(a) <= Len(b) /\ SubSeq(b, 1, Len(a)) = a

\* Every component before the last one is a present directory
Walkable(store, key) ==
  \A k \in Prefixes(key) : k # key => IsDirAt(store, k)

\* fs.existsSync(p): a name followed by a separator must be a directory
ExistsSync(store, p) ==
  /\ Present(store, p.key)
  /\ p.trailing => store[p.key].isDir

\* mkdir without `recursive`, which fails on a directory that is there
MkdirRecursive_FailIfExists(store, p) ==
  IF Present(store, p.key) \/ \E k \in Prefixes(p.key) : IsFileAt(store, k)
    THEN [err |-> "IOFailure", store |-> store]
  ELSE [err |-> "none",
        store |-> [k \in DOMAIN store \cup Prefixes(p.key) |->
                     IF k \in DOMAIN store THEN store[k] ELSE DirNode]]

\* fs.mkdirSync(p, {recursive: true}) and fs.promises.mkdir(p, {recursive: true})
MkdirRecursive(store, p) ==
  LET key == p.key IN
  IF \E k \in Prefixes(key) : IsFileAt(store, k)
    THEN [err |-> "IOFailure", store |-> store]
  ELSE [err |-> "none",
        store |-> [k \in DOMAIN store \cup Prefixes(key) |->
                     IF k \in DOMAIN store THEN store[k] ELSE DirNode]]

\* fs.promises.writeFile(p, bytes)
WriteBytes(store, p, bytes) ==
  LET key == p.key IN
  IF \/ p.trailing
     \/ ~Walkable(store, key)
     \/ IsDirAt(store, key)
    THEN [err |-> "IOFailure", store |-> store]
  ELSE [err |-> "none",
        store |-> [k \in DOMAIN store \cup {key} |->
                     IF k = key THEN FileNode(bytes) ELSE store[k]]]

\* fs.promises.readFile(p): the bytes of a file
ReadBytes(store, p) ==
  LET key == p.key IN
  IF IsFileAt(store, key) /\ ~p.trailing
    THEN [err |-> "none", data |-> store[key].data]
  ELSE [err |-> "IOFailure", data |-> <<>>]

\* Removal of the entry alone, which leaves what was below it
RemoveTree_EntryOnly(store, key) == [k \in DOMAIN store \ {key} |-> store[k]]

\* fs.promises.rm(p, {recursive: true, force: true}) and fs.promises.unlink(p)
RemoveTree(store, key) ==
  [k \in {q \in DOMAIN store : ~IsPrefix(key, q)} |-> store[k]]

\* fs.readdirSync(p): the keys of the children
Children(store, key) ==
  {k \in DOMAIN store : Len(k) = Len(key) + 1 /\ IsPrefix(key, k)}

\* stat.size: the bytes of a file; a directory's own size plays no part
SizeAt(store, key) == Len(store[key].data)

\* this._ensureDirectories(), for the scope-root table `roots`
EnsureDirectoriesOf(store, roots) ==
  LET ensure(st, dir) ==
        IF ExistsSync(st, dir) THEN st ELSE MkdirRecursive(st, dir).store
  IN  ensure(ensure(ensure(store, PathOf(roots.run)), PathOf(roots.task)),
             PathOf(roots.global))

EnsureDirectories(store) == EnsureDirectoriesOf(store, scopes)

----------------------------------------------------------------------------
(* TaskVFS: the operations.  Each returns err (the kind of the Error it     *)
(* throws, "none" when it returns), the store it leaves, and its value.     *)
(* The catch blocks that rethrow with a longer message keep the kind.       *)

\* The logical paths the calls of the model name
Path_a == <<"a">>

Path_slash_a == <<"/", "a">>

Path_d == <<"d">>

Path_d_a == <<"d", "/", "a">>

Path_d_b == <<"d", "/", "b">>

\* A path that names its last component as a directory
Path_d_a_sep == <<"d", "/", "a", "/">>

Path_d_e == <<"d", "/", "e">>

Path_d_e_f == <<"d", "/", "e", "/", "f">>

Path_root == <<"/">>

Path_up_fsx == <<".", ".", "/", "f", "s", "x">>

Path_up_x == <<".", ".", "/", "x">>

Path_d_up_a == <<"d", "/", ".", ".", "/", "a">>

Path_empty == <<>>

Path_blank == <<" ">>

\* A directory whose name is one space, and an entry below it
Path_blank_x == <<" ", "/", "x">>

PathArgs == {Path_a, Path_slash_a, Path_d, Path_d_a, Path_root, Path_up_fsx,
             Path_up_x, Path_d_up_a, Path_empty, Path_blank}

\* The names this.scopes[name] finds on Object.prototype, which the literal
\* inherits: their values are functions and objects, none is a string
InheritedKeys == {"constructor", "toString", "__proto__"}

\* _resolvePath(filepath, scope).  `!this.scopes[scope]` is true of the names
\* the lookup does not find; with an inherited value path.join throws its
\* TypeError for an argument that is no string
\* _resolvePath(filepath, scope) of an instance whose this.scopes is `roots`
ResolveIn(roots, filepath, scope) ==
  IF scope \notin DOMAIN roots \cup InheritedKeys
    THEN [err |-> "InvalidScope", path |-> PathOf(<<>>)]
  ELSE IF filepath = <<>> \/ IsBlank(filepath)
    THEN [err |-> "EmptyPath", path |-> PathOf(<<>>)]
  ELSE IF scope \in InheritedKeys
    THEN [err |-> "TypeError", path |-> PathOf(<<>>)]
  ELSE
  With(IF filepath[1] = "/" THEN Tail(filepath) ELSE filepath, LAMBDA normalized :
  With(PathJoin(<<roots[scope], normalized>>), LAMBDA resolved :
    IF ~StartsWith(resolved, roots[scope])
      THEN [err |-> "PathTraversal", path |-> PathOf(<<>>)]
    ELSE [err |-> "none", path |-> PathOf(resolved)]))

ResolvePath(filepath, scope) == ResolveIn(scopes, filepath, scope)

\* _resolvePath on the paths the calls name, computed once
ResolveCache ==
  [p \in PathArgs \cup {Path_d_b} |->
     [s \in ScopeNames |-> ResolvePath(p, s)]]

\* A resolution that takes every scope for the run scope
Resolve_RunOnly(filepath, scope) == ResolvePath(filepath, "run")

\* this._resolvePath(filepath, scope), as the operations call it
Resolve(filepath, scope) ==
  IF filepath \in DOMAIN ResolveCache /\ scope \in ScopeNames
    THEN ResolveCache[filepath][scope]
  ELSE ResolvePath(filepath, scope)

\* writeFile that overwrites whatever `append` says
VfsWriteFile_Overwrite(store, filepath, content, scope, options) ==
  With(Resolve(filepath, scope), LAMBDA r :
  IF r.err # "none" THEN [err |-> r.err, store |-> store]
  ELSE
  With(r.path, LAMBDA fullPath :
  With(PathDirname(fullPath), LAMBDA dir :
  With(IF ~ExistsSync(store, dir) THEN MkdirRecursive(store, dir)
       ELSE [err |-> "none", store |-> store], LAMBDA made :
  IF made.err # "none" THEN [err |-> made.err, store |-> made.store]
  ELSE
  With(options.encoding, LAMBDA encoding :
  With(IF content.type = "object" THEN JSONStringify(content)
       ELSE content.text, LAMBDA text :
  With(FALSE, LAMBDA appends :
  With(ReadBytes(made.store, fullPath), LAMBDA existing :
  IF appends /\ existing.err # "none"
    THEN [err |-> existing.err, store |-> made.store]
  ELSE
  With(IF appends THEN Decode(existing.data, encoding) \o text ELSE text,
       LAMBDA final :
  With(WriteBytes(made.store, fullPath, Encode(final, encoding)),
       LAMBDA written :
  IF written.err # "none" THEN [err |-> written.err, store |-> made.store]
  ELSE [err |-> "none", store |-> written.store,
        path |-> filepath, scope |-> scope,
        size |-> SizeAt(written.store, fullPath.key),
        fullPath |-> fullPath,
        events |-> <<[type |-> "file:write", path |-> filepath, scope |-> scope,
                      fullPath |-> fullPath]>>]))))))))))

\* writeFile(filepath, content, scope, options)
VfsWriteFile(store, filepath, content, scope, options) ==
  With(Resolve(filepath, scope), LAMBDA r :
  IF r.err # "none" THEN [err |-> r.err, store |-> store]
  ELSE
  With(r.path, LAMBDA fullPath :
  With(PathDirname(fullPath), LAMBDA dir :
  With(IF ~ExistsSync(store, dir) THEN MkdirRecursive(store, dir)
       ELSE [err |-> "none", store |-> store], LAMBDA made :
  IF made.err # "none" THEN [err |-> made.err, store |-> made.store]
  ELSE
  With(options.encoding, LAMBDA encoding :
  With(IF content.type = "object" THEN JSONStringify(content)
       ELSE content.text, LAMBDA text :
  With(options.append /\ ExistsSync(made.store, fullPath), LAMBDA appends :
  With(ReadBytes(made.store, fullPath), LAMBDA existing :
  IF appends /\ existing.err # "none"
    THEN [err |-> existing.err, store |-> made.store]
  ELSE
  With(IF appends THEN Decode(existing.data, encoding) \o text ELSE text,
       LAMBDA final :
  With(WriteBytes(made.store, fullPath, Encode(final, encoding)),
       LAMBDA written :
  IF written.err # "none" THEN [err |-> written.err, store |-> made.store]
  ELSE [err |-> "none", store |-> written.store,
        path |-> filepath, scope |-> scope,
        size |-> SizeAt(written.store, fullPath.key),
        fullPath |-> fullPath,
        events |-> <<[type |-> "file:write", path |-> filepath, scope |-> scope,
                      fullPath |-> fullPath]>>]))))))))))

\* readFile(filepath, scope, options): the loop over searchScopes from its
\* position `rest`, with the errors collected so far
RECURSIVE ReadProbe(_, _, _, _, _, _)
ReadProbe(store, filepath, scope, options, rest, errors) ==
  IF rest = <<>> THEN [err |-> "NotFound", searched |-> errors]
  ELSE
  With(Head(rest), LAMBDA s :
  With(Resolve(filepath, s), LAMBDA r :
  IF r.err # "none" THEN
    With(Append(errors, [scope |-> s, reason |-> r.err]), LAMBDA errs :
      IF scope # "auto" THEN [err |-> r.err, searched |-> errs]
      ELSE ReadProbe(store, filepath, scope, options, Tail(rest), errs))
  ELSE IF ~ExistsSync(store, r.path) THEN
    ReadProbe(store, filepath, scope, options, Tail(rest),
              Append(errors, [scope |-> s, reason |-> "NotFound"]))
  ELSE
  With(ReadBytes(store, r.path), LAMBDA rd :
  IF rd.err # "none" THEN
    With(Append(errors, [scope |-> s, reason |-> rd.err]), LAMBDA errs :
      IF scope # "auto" THEN [err |-> rd.err, searched |-> errs]
      ELSE ReadProbe(store, filepath, scope, options, Tail(rest), errs))
  ELSE [err |-> "none", searched |-> errors,
        content |-> Decode(rd.data, options.encoding),
        path |-> filepath, scope |-> s, size |-> Len(rd.data),
        fullPath |-> r.path,
        events |-> <<[type |-> "file:read", path |-> filepath, scope |-> s,
                      fullPath |-> r.path]>>])))

\* readFile probing the scopes of `auto` from global to run
VfsReadFile_GlobalFirst(store, filepath, scope, options) ==
  LET searchScopes == IF scope = "auto" THEN <<"global", "task", "run">>
                      ELSE <<scope>>
  IN  ReadProbe(store, filepath, scope, options, searchScopes, <<>>)

\* readFile going on to the other scopes after a miss in a concrete scope
VfsReadFile_Fallback(store, filepath, scope, options) ==
  LET searchScopes == IF scope = "auto" THEN <<"run", "task", "global">>
                      ELSE <<scope, "run", "task", "global">>
  IN  ReadProbe(store, filepath, scope, options, searchScopes, <<>>)

\* readFile that gives up after the first scope of `auto`
VfsReadFile_FirstScope(store, filepath, scope, options) ==
  LET searchScopes == IF scope = "auto" THEN <<"run">> ELSE <<scope>>
  IN  ReadProbe(store, filepath, scope, options, searchScopes, <<>>)

VfsReadFile(store, filepath, scope, options) ==
  LET searchScopes == IF scope = "auto" THEN <<"run", "task", "global">>
                      ELSE <<scope>>
  IN  ReadProbe(store, filepath, scope, options, searchScopes, <<>>)

\* The entries of readdir, in the order the directory gives them
ReaddirOrder(keys) ==
  CHOOSE f \in [1..Cardinality(keys) -> keys] :
    \A i, j \in 1..Cardinality(keys) : i # j => f[i] # f[j]

\* One item of a listing
ListItem(store, dirpath, scope, fullPath, k) ==
  [name |-> Last(k), path |-> PathJoin(<<dirpath, Last(k)>>),
   scope |-> scope, size |-> SizeAt(store, k),
   fullPath |-> PathJoin(<<fullPath.str, Last(k)>>)]

\* listFiles that reads the directory without looking whether it is there
VfsListFiles_NoExistsCheck(store, dirpath, scope) ==
  With(Resolve(dirpath, scope), LAMBDA r :
  IF r.err # "none" THEN [err |-> r.err]
  ELSE IF ~IsDirAt(store, r.path.key) THEN [err |-> "IOFailure"]
  ELSE
  With(ReaddirOrder(Children(store, r.path.key)), LAMBDA entries :
  With(SelectSeq(entries, LAMBDA k : ~store[k].isDir), LAMBDA fileKeys :
  With(SelectSeq(entries, LAMBDA k : store[k].isDir), LAMBDA dirKeys :
    [err |-> "none", path |-> dirpath, scope |-> scope,
     files |-> [i \in DOMAIN fileKeys |->
                  ListItem(store, dirpath, scope, r.path, fileKeys[i])],
     directories |-> [i \in DOMAIN dirKeys |->
                        ListItem(store, dirpath, scope, r.path, dirKeys[i])],
     total |-> Len(fileKeys) + Len(dirKeys)]))))

\* listFiles(dirpath, scope)
VfsListFiles(store, dirpath, scope) ==
  With(Resolve(dirpath, scope), LAMBDA r :
  IF r.err # "none" THEN [err |-> r.err]
  ELSE IF ~ExistsSync(store, r.path)
    THEN [err |-> "none", path |-> dirpath, scope |-> scope,
          files |-> <<>>, directories |-> <<>>, total |-> 0]
  ELSE IF ~IsDirAt(store, r.path.key) THEN [err |-> "IOFailure"]
  ELSE
  With(ReaddirOrder(Children(store, r.path.key)), LAMBDA entries :
  With(SelectSeq(entries, LAMBDA k : ~store[k].isDir), LAMBDA fileKeys :
  With(SelectSeq(entries, LAMBDA k : store[k].isDir), LAMBDA dirKeys :
    [err |-> "none", path |-> dirpath, scope |-> scope,
     files |-> [i \in DOMAIN fileKeys |->
                  ListItem(store, dirpath, scope, r.path, fileKeys[i])],
     directories |-> [i \in DOMAIN dirKeys |->
                        ListItem(store, dirpath, scope, r.path, dirKeys[i])],
     total |-> Len(fileKeys) + Len(dirKeys)]))))

\* deleteFile that emits nothing
VfsDeleteFile_Silent(store, filepath, scope) ==
  With(Resolve(filepath, scope), LAMBDA r :
  IF r.err # "none" THEN [err |-> r.err, store |-> store]
  ELSE IF ~ExistsSync(store, r.path) THEN [err |-> "NotFound", store |-> store]
  ELSE [err |-> "none", store |-> RemoveTree(store, r.path.key),
        path |-> filepath, scope |-> scope, events |-> <<>>])

\* deleteFile(filepath, scope)
VfsDeleteFile(store, filepath, scope) ==
  With(Resolve(filepath, scope), LAMBDA r :
  IF r.err # "none" THEN [err |-> r.err, store |-> store]
  ELSE IF ~ExistsSync(store, r.path) THEN [err |-> "NotFound", store |-> store]
  ELSE [err |-> "none", store |-> RemoveTree(store, r.path.key),
        path |-> filepath, scope |-> scope,
        events |-> <<[type |-> "file:delete", path |-> filepath, scope |-> scope,
                      fullPath |-> r.path]>>])

\* exists(filepath, scope)
VfsExists(store, filepath, scope) ==
  With(Resolve(filepath, scope), LAMBDA r :
  IF r.err # "none" THEN FALSE ELSE ExistsSync(store, r.path))

\* stat(filepath, scope)
VfsStat(store, filepath, scope) ==
  With(Resolve(filepath, scope), LAMBDA r :
  IF r.err # "none" THEN [err |-> r.err]
  ELSE IF ~ExistsSync(store, r.path) THEN [err |-> "NotFound"]
  ELSE [err |-> "none", path |-> filepath, scope |-> scope,
        size |-> SizeAt(store, r.path.key),
        isDirectory |-> store[r.path.key].isDir,
        isFile |-> ~store[r.path.key].isDir,
        fullPath |-> r.path])

\* mkdir(dirpath, scope)
VfsMkdir(store, dirpath, scope) ==
  With(Resolve(dirpath, scope), LAMBDA r :
  IF r.err # "none" THEN [err |-> r.err, store |-> store]
  ELSE
  With(MkdirRecursive(store, r.path), LAMBDA made :
  IF made.err # "none" THEN [err |-> made.err, store |-> store]
  ELSE [err |-> "none", store |-> made.store,
        path |-> dirpath, scope |-> scope, fullPath |-> r.path]))

\* The watcher fs.watch(fullPath, { recursive: false }, listener) starts: open,
\* with no change notification received and the callback not yet called
FsWatch(filepath, scope, fullPath) ==
  [path |-> filepath, scope |-> scope, fullPath |-> fullPath,
   closed |-> FALSE, notified |-> 0, calls |-> 0]

\* watch that arms the watcher without looking whether the path exists
VfsWatch_NoExistsCheck(store, filepath, scope) ==
  With(Resolve(filepath, scope), LAMBDA r :
  IF r.err # "none" THEN [err |-> r.err]
  ELSE [err |-> "none", watcher |-> FsWatch(filepath, scope, r.path)])

\* watch(filepath, scope, callback): the watcher it arms
VfsWatch(store, filepath, scope) ==
  With(Resolve(filepath, scope), LAMBDA r :
  IF r.err # "none" THEN [err |-> r.err]
  ELSE IF ~ExistsSync(store, r.path) THEN [err |-> "NotFound"]
  ELSE [err |-> "none", watcher |-> FsWatch(filepath, scope, r.path)])

\* The listener watch gives to fs.watch: it builds the event and calls the
\* callback with it, once
WatchListener(w) == [w EXCEPT !.calls = @ + 1]

\* A change notification of the operating system for the watched path: an open
\* watcher passes it to its listener, a closed one has no handle to receive it
FsWatchChange(w) ==
  IF w.closed THEN w ELSE WatchListener([w EXCEPT !.notified = @ + 1])

\* A handle whose close() leaves the watcher as it is
WatchClose_Noop(w) == w

\* handle.close(): watcher.close(), which returns at once on a closed watcher
WatchClose(w) == [w EXCEPT !.closed = TRUE]

\* The most segments of a path the system takes: a longer one is refused with
\* ENAMETOOLONG
PathMax == 9

\* path.join(path.join(osJsVFSPath, 'tasks', this.taskId), scopeName), as a key
ExportTarget(osJsVFSPath, s) ==
  KeyOf(PathJoin(<<osJsVFSPath, <<"t", "a", "s", "k", "s">>, taskId>>))
    \o << [run |-> <<"r", "u", "n">>, task |-> <<"t", "a", "s", "k">>,
           global |-> <<"g", "l", "o", "b", "a", "l">>][s] >>

\* _copyDirectory(src, dest), on keys: the loop over the entries readdir gave,
\* with their types as `listed` held them, from its position i
RECURSIVE CopyDirectory(_, _, _)
RECURSIVE CopyEntries(_, _, _, _, _)
CopyEntries(store, listed, dest, entries, i) ==
  IF i > Len(entries) THEN [err |-> "none", store |-> store]
  ELSE
  With(Append(dest, Last(entries[i])), LAMBDA destPath :
  With(IF listed[entries[i]].isDir
         THEN CopyDirectory(store, entries[i], destPath)
       ELSE IF ~IsFileAt(store, entries[i])
         THEN [err |-> "IOFailure", store |-> store]
       ELSE WriteBytes(store, [key |-> destPath, trailing |-> FALSE],
                       store[entries[i]].data), LAMBDA copied :
    IF copied.err # "none" THEN copied
    ELSE CopyEntries(copied.store, listed, dest, entries, i + 1)))

CopyDirectory(store, src, dest) ==
  With(IF Present(store, dest) THEN [err |-> "none", store |-> store]
       ELSE IF Len(dest) > PathMax THEN [err |-> "IOFailure", store |-> store]
       ELSE MkdirRecursive(store, [key |-> dest]), LAMBDA made :
  IF made.err # "none" THEN made
  ELSE IF ~IsDirAt(made.store, src)
    THEN [err |-> "IOFailure", store |-> made.store]
  ELSE CopyEntries(made.store, made.store, dest,
                   ReaddirOrder(Children(made.store, src)), 1))

\* exportToOSjs(osJsVFSPath): the loop over the scopes from its position
RECURSIVE ExportScopes(_, _, _)
ExportScopes(store, osJsVFSPath, rest) ==
  IF rest = <<>> THEN [err |-> "none", store |-> store]
  ELSE IF ~ExistsSync(store, PathOf(scopes[Head(rest)]))
    THEN ExportScopes(store, osJsVFSPath, Tail(rest))
  ELSE
  With(CopyDirectory(store, KeyOf(scopes[Head(rest)]),
                     ExportTarget(osJsVFSPath, Head(rest))), LAMBDA copied :
    IF copied.err # "none" THEN copied
    ELSE ExportScopes(copied.store, osJsVFSPath, Tail(rest)))

\* exportToOSjs(osJsVFSPath)
ExportToOSjs(store, osJsVFSPath) ==
  With(Front(ExportTarget(osJsVFSPath, "run")), LAMBDA exportPath :
  With(IF Present(store, exportPath) THEN [err |-> "none", store |-> store]
       ELSE MkdirRecursive(store, [key |-> exportPath]), LAMBDA made :
  IF made.err # "none" THEN made
  ELSE ExportScopes(made.store, osJsVFSPath, <<"run", "task", "global">>)))

----------------------------------------------------------------------------
(* HostTools: what a tool call leaves in `result`.  A call either returns a *)
(* value (state "returned"), throws (state "thrown"), or stays pending.     *)
(* success is "true", "false", or "absent" when the value has no such field.*)
(* raised is the kind of the Error the TaskVFS method threw, "none" if it   *)
(* returned.                                                                *)

Blank ==
  [state |-> "idle", tool |-> "none", params |-> <<>>,
   success |-> "absent", error |-> "none", raised |-> "none",
   missing |-> <<>>, envTool |-> "none", envParams |-> <<>>,
   path |-> <<>>, scope |-> "none", content |-> <<>>, size |-> 0,
   fullPath |-> PathOf(<<>>), exists |-> FALSE, files |-> <<>>, directories |-> <<>>,
   total |-> 0, searched |-> <<>>, isDirectory |-> FALSE, isFile |-> FALSE,
   events |-> <<>>, event |-> <<>>, tree |-> <<>>, watcher |-> 0]

\* Destructuring with a default: `const { key = dflt } = params`
Get(params, key, dflt) == IF key \in DOMAIN params THEN params[key] ELSE dflt

\* _validateParams(params, required): required.filter(key => !(key in params))
MissingKeys(params, required) ==
  LET absent(key) == key \notin DOMAIN params IN SelectSeq(required, absent)

\* throw new Error(`Missing required parameters: ${missing.join(', ')}`)
Thrown(tool, params, missing) ==
  [Blank EXCEPT !.state = "thrown", !.tool = tool, !.params = params,
                !.error = "MissingParameters", !.missing = missing]

\* return { success: false, error: error.message, tool, params: { path, scope } }
Failure(tool, params, scope, err) ==
  [Blank EXCEPT !.state = "returned", !.tool = tool, !.params = params,
                !.success = "false", !.error = err, !.raised = err,
                !.envTool = tool,
                !.envParams = [path |-> params.path, scope |-> scope]]

\* A value returned by the tool: its fields over the blank record
Returned(tool, params, fields) ==
  fields @@ [Blank EXCEPT !.state = "returned", !.tool = tool, !.params = params]

DropStore(r) == [k \in DOMAIN r \ {"store", "err"} |-> r[k]]

\* What a tool returns for the outcome r of the TaskVFS method it awaited
Outcome(tool, params, scope, r) ==
  IF r.err # "none" THEN Failure(tool, params, scope, r.err)
  ELSE Returned(tool, params, [success |-> "true"] @@ DropStore(r))

\* writeFile(params)
HostWriteFile(store, params) ==
  IF MissingKeys(params, <<"path", "content">>) # <<>>
    THEN [result |-> Thrown("writeFile", params,
                            MissingKeys(params, <<"path", "content">>)),
          store |-> store]
  ELSE
  With(Get(params, "scope", "run"), LAMBDA scope :
  With(VfsWriteFile(store, params.path, params.content, scope,
                    [encoding |-> Get(params, "encoding", "utf8"),
                     append |-> Get(params, "append", FALSE)]), LAMBDA r :
    [result |-> Outcome("writeFile", params, scope, r), store |-> r.store]))

\* readFile(params)
HostReadFile(store, params) ==
  IF MissingKeys(params, <<"path">>) # <<>>
    THEN Thrown("readFile", params, MissingKeys(params, <<"path">>))
  ELSE
  With(Get(params, "scope", "auto"), LAMBDA scope :
  With(VfsReadFile(store, params.path, scope,
                   [encoding |-> Get(params, "encoding", "utf8")]), LAMBDA r :
    IF r.err # "none"
      THEN [Failure("readFile", params, scope, r.err)
              EXCEPT !.searched = r.searched]
    ELSE Returned("readFile", params, [success |-> "true"] @@ DropStore(r))))

\* listFiles(params): the loop `for (const dir of result.directories)` from its
\* position i, over the collections as they grow while it runs
RECURSIVE HostListFiles(_, _)
RECURSIVE ListLoop(_, _, _, _, _)

ListLoop(store, scope, files, directories, i) ==
  IF i > Len(directories)
    THEN [files |-> files, directories |-> directories]
  ELSE
  With(HostListFiles(store, [path |-> directories[i].path,
                             scope |-> scope, recursive |-> TRUE]),
       LAMBDA subResult :
    IF subResult.success = "true"
      THEN ListLoop(store, scope, files \o subResult.files,
                    directories \o subResult.directories, i + 1)
    ELSE ListLoop(store, scope, files, directories, i + 1))

HostListFiles(store, params) ==
  With(Get(params, "path", <<"/">>), LAMBDA path :
  With(Get(params, "scope", "run"), LAMBDA scope :
  With(Get(params, "recursive", FALSE), LAMBDA recursive :
  With(VfsListFiles(store, path, scope), LAMBDA r :
  IF r.err # "none"
    THEN [Failure("listFiles", [path |-> path], scope, r.err)
            EXCEPT !.params = params]
  ELSE
  With(IF recursive /\ Len(r.directories) > 0
         THEN ListLoop(store, scope, r.files, r.directories, 1)
       ELSE [files |-> r.files, directories |-> r.directories], LAMBDA all :
    Returned("listFiles", params,
             [success |-> "true", files |-> all.files,
              directories |-> all.directories] @@ DropStore(r)))))))

\* deleteFile(params)
HostDeleteFile(store, params) ==
  IF MissingKeys(params, <<"path">>) # <<>>
    THEN [result |-> Thrown("deleteFile", params,
                            MissingKeys(params, <<"path">>)),
          store |-> store]
  ELSE
  With(Get(params, "scope", "run"), LAMBDA scope :
  With(VfsDeleteFile(store, params.path, scope), LAMBDA r :
    [result |-> Outcome("deleteFile", params, scope, r), store |-> r.store]))

\* fileExists(params)
HostFileExists(store, params) ==
  IF MissingKeys(params, <<"path">>) # <<>>
    THEN Thrown("fileExists", params, MissingKeys(params, <<"path">>))
  ELSE
  With(Get(params, "scope", "run"), LAMBDA scope :
    Returned("fileExists", params,
             [success |-> "true",
              exists |-> VfsExists(store, params.path, scope),
              path |-> params.path, scope |-> scope]))

\* fileStat(params): the stat record itself, which has no success field
HostFileStat(store, params) ==
  IF MissingKeys(params, <<"path">>) # <<>>
    THEN Thrown("fileStat", params, MissingKeys(params, <<"path">>))
  ELSE
  With(Get(params, "scope", "run"), LAMBDA scope :
  With(VfsStat(store, params.path, scope), LAMBDA r :
    IF r.err # "none" THEN Failure("fileStat", params, scope, r.err)
    ELSE Returned("fileStat", params, DropStore(r))))

\* mkdir(params) without the try/catch around the call of the VFS
HostMkdir_Uncaught(store, params) ==
  IF MissingKeys(params, <<"path">>) # <<>>
    THEN [result |-> Thrown("mkdir", params, MissingKeys(params, <<"path">>)),
          store |-> store]
  ELSE
  With(Get(params, "scope", "run"), LAMBDA scope :
  With(VfsMkdir(store, params.path, scope), LAMBDA r :
    [result |-> IF r.err # "none"
                  THEN [Blank EXCEPT !.state = "thrown", !.tool = "mkdir",
                                     !.params = params, !.error = r.err,
                                     !.raised = r.err]
                ELSE Outcome("mkdir", params, scope, r),
     store |-> r.store]))

\* mkdir(params)
HostMkdir(store, params) ==
  IF MissingKeys(params, <<"path">>) # <<>>
    THEN [result |-> Thrown("mkdir", params, MissingKeys(params, <<"path">>)),
          store |-> store]
  ELSE
  With(Get(params, "scope", "run"), LAMBDA scope :
  With(VfsMkdir(store, params.path, scope), LAMBDA r :
    [result |-> Outcome("mkdir", params, scope, r), store |-> r.store]))

\* watchFile(params): the promise stays pending until the watcher's callback
\* resolves it; `armed` is the watcher vfs.watch started (the handle it returns
\* is dropped inside the promise executor)
HostWatchFile(store, params, id) ==
  IF MissingKeys(params, <<"path">>) # <<>>
    THEN [result |-> Thrown("watchFile", params,
                            MissingKeys(params, <<"path">>)),
          armed |-> <<>>]
  ELSE
  With(Get(params, "scope", "run"), LAMBDA scope :
  With(VfsWatch(store, params.path, scope), LAMBDA r :
    IF r.err # "none"
      THEN [result |-> Failure("watchFile", params, scope, r.err),
            armed |-> <<>>]
    ELSE [result |-> [Blank EXCEPT !.state = "pending", !.tool = "watchFile",
                                   !.params = params, !.watcher = id],
          armed |-> <<r.watcher>>]))

\* The watcher's callback: resolve({ success: true, event, path, scope })
WatchResolved(pending, w) ==
  Returned("watchFile", pending.params,
           [success |-> "true", path |-> w.path, scope |-> w.scope,
            event |-> [event |-> "change", path |-> w.path,
                       scope |-> w.scope]])

\* The bytes of the files among the keys
RECURSIVE SumSizes(_, _)
SumSizes(store, keys) ==
  IF keys = {} THEN 0
  ELSE With(CHOOSE k \in keys : TRUE, LAMBDA k :
         SizeAt(store, k) + SumSizes(store, keys \ {k}))

\* _getDirectorySize(dirPath): the bytes of the files below dirPath; readdirSync
\* throws when dirPath is present and is not a directory
DirectorySize(store, p) ==
  IF ~ExistsSync(store, p) THEN [err |-> "none", size |-> 0]
  ELSE IF ~IsDirAt(store, p.key) THEN [err |-> "IOFailure", size |-> 0]
  ELSE [err |-> "none",
        size |-> SumSizes(store, {k \in DOMAIN store :
                                    IsPrefix(p.key, k) /\ ~store[k].isDir})]

\* getVFSTree()
GetVFSTree(store) ==
  IF \E s \in ScopeNames : DirectorySize(store, PathOf(scopes[s])).err # "none"
    THEN [err |-> "IOFailure"]
  ELSE [err |-> "none",
        tree |-> [s \in ScopeNames |->
                    [path |-> scopes[s],
                     exists |-> ExistsSync(store, PathOf(scopes[s])),
                     size |-> DirectorySize(store, PathOf(scopes[s])).size]]]

\* vfsTree()
HostVfsTree(store) ==
  With(GetVFSTree(store), LAMBDA r :
  IF r.err # "none"
    THEN [Blank EXCEPT !.state = "returned", !.tool = "vfsTree",
                       !.success = "false", !.error = r.err, !.raised = r.err,
                       !.envTool = "vfsTree"]
  ELSE Returned("vfsTree", <<>>, [success |-> "true", tree |-> r.tree]))

----------------------------------------------------------------------------
(* The state machine.  fs is the disk; result is the outcome of the tool    *)
(* call the task is suspended on ("idle" between calls); watchers are the   *)
(* open fs.watch watchers, in the order they were armed; inflight holds the *)
(* writeFile calls that run side by side, each at its own await.            *)

\* The disk before construction: only the filesystem root
EmptyDisk == [k \in {<<>>} |-> DirNode]

\* The disk new TaskVFS(...) leaves
Constructed == EnsureDirectories(EmptyDisk)

\* The entries of a disk that differ from the constructed one
Changes(store) ==
  Cardinality({k \in DOMAIN store \cup DOMAIN Constructed :
                 \/ k \notin DOMAIN store
                 \/ k \notin DOMAIN Constructed
                 \/ store[k].isDir # Constructed[k].isDir})

\* The most entries by which the calls of Spec take the disk away from the
\* constructed one
MaxChanges == 1

\* The longest file that an appending write may leave
MaxBytes == 3

\* The most watchers open at once
MaxWatchers == 1

\* The most change notifications one watcher is sent
MaxEvents == 2

Fits(store) == \A k \in DOMAIN store : Len(store[k].data) <= MaxBytes

\* A slot of `inflight` that holds no call
NoCall ==
  [pc |-> "none", params |-> <<>>, fullPath |-> PathOf(<<>>), content |-> <<>>,
   before |-> <<>>, result |-> Blank]

Init ==
  /\ fs = Constructed
  /\ result = Blank
  /\ watchers = <<>>
  /\ inflight = [c \in {1, 2} |-> NoCall]

Idle == result.state = "idle"

\* One tool call of the task, with its parameter mapping
CallWriteFile(params) ==
  /\ Idle
  /\ \E r \in {HostWriteFile(fs, params)} :
       /\ fs' = r.store
       /\ result' = r.result
  /\ UNCHANGED <<watchers, inflight>>

CallReadFile(params) ==
  /\ Idle
  /\ result' = HostReadFile(fs, params)
  /\ UNCHANGED <<fs, watchers, inflight>>

CallListFiles(params) ==
  /\ Idle
  /\ result' = HostListFiles(fs, params)
  /\ UNCHANGED <<fs, watchers, inflight>>

CallDeleteFile(params) ==
  /\ Idle
  /\ \E r \in {HostDeleteFile(fs, params)} :
       /\ fs' = r.store
       /\ result' = r.result
  /\ UNCHANGED <<watchers, inflight>>

CallFileExists(params) ==
  /\ Idle
  /\ result' = HostFileExists(fs, params)
  /\ UNCHANGED <<fs, watchers, inflight>>

CallFileStat(params) ==
  /\ Idle
  /\ result' = HostFileStat(fs, params)
  /\ UNCHANGED <<fs, watchers, inflight>>

CallMkdir(params) ==
  /\ Idle
  /\ \E r \in {HostMkdir(fs, params)} :
       /\ fs' = r.store
       /\ result' = r.result
  /\ UNCHANGED <<watchers, inflight>>

CallWatchFile(params) ==
  /\ Idle
  /\ \E r \in {HostWatchFile(fs, params, Len(watchers) + 1)} :
       /\ Len(watchers \o r.armed) <= MaxWatchers
       /\ result' = r.result
       /\ watchers' = watchers \o r.armed
  /\ UNCHANGED <<fs, inflight>>

VfsTree ==
  /\ Idle
  /\ result' = HostVfsTree(fs)
  /\ UNCHANGED <<fs, watchers, inflight>>

\* getVFS().exportToOSjs(osJsVFSPath), which returns { success: true,
\* exportPath } or throws
CallExport(osJsVFSPath) ==
  /\ Idle
  /\ \E r \in {ExportToOSjs(fs, osJsVFSPath)} :
       /\ fs' = r.store
       /\ result' = [Blank EXCEPT
                       !.state = IF r.err = "none" THEN "returned" ELSE "thrown",
                       !.tool = "exportToOSjs",
                       !.params = [osJsVFSPath |-> osJsVFSPath],
                       !.success = IF r.err = "none" THEN "true" ELSE "absent",
                       !.error = r.err, !.raised = r.err]
  /\ UNCHANGED <<watchers, inflight>>

\* What call c of `inflight` returns: the envelope of the catch block of
\* HostTools.writeFile around the Error that TaskVFS.writeFile threw
WriteFileFailed(c, params, err) ==
  [NoCall EXCEPT !.pc = "done", !.params = params,
                 !.result = Failure("writeFile", params,
                                    Get(params, "scope", "run"), err)]

\* writeFile(params) of call c up to its first await: validation, resolution,
\* the parent directories, JSON.stringify and the existsSync test of append
WriteFileBegin(c, params) ==
  /\ inflight[c].pc = "none"
  /\ \E missing \in {MissingKeys(params, <<"path", "content">>)} :
     IF missing # <<>>
       THEN /\ inflight' = [inflight EXCEPT ![c] =
                 [NoCall EXCEPT !.pc = "done", !.params = params,
                                !.result = Thrown("writeFile", params, missing)]]
            /\ fs' = fs
     ELSE
     \E r \in {Resolve(params.path, Get(params, "scope", "run"))} :
     IF r.err # "none"
       THEN /\ inflight' = [inflight EXCEPT ![c] =
                              WriteFileFailed(c, params, r.err)]
            /\ fs' = fs
     ELSE
     \E made \in {IF ~ExistsSync(fs, PathDirname(r.path))
                    THEN MkdirRecursive(fs, PathDirname(r.path))
                  ELSE [err |-> "none", store |-> fs]} :
       /\ fs' = made.store
       /\ inflight' = [inflight EXCEPT ![c] =
            IF made.err # "none" THEN WriteFileFailed(c, params, made.err)
            ELSE [NoCall EXCEPT
                    !.pc = IF Get(params, "append", FALSE)
                              /\ ExistsSync(made.store, r.path)
                             THEN "readFile" ELSE "writeFile",
                    !.params = params,
                    !.fullPath = r.path,
                    !.content = IF params.content.type = "object"
                                  THEN JSONStringify(params.content)
                                ELSE params.content.text,
                    !.before = IF IsFileAt(fs, r.path.key)
                                 THEN Decode(fs[r.path.key].data,
                                             Get(params, "encoding", "utf8"))
                               ELSE <<>>]]
  /\ UNCHANGED <<result, watchers>>

\* const existing = await fs.promises.readFile(fullPath, encoding);
\* content = existing + content
WriteFileRead(c) ==
  /\ inflight[c].pc = "readFile"
  /\ \E existing \in {ReadBytes(fs, inflight[c].fullPath)} :
       inflight' = [inflight EXCEPT ![c] =
         IF existing.err # "none"
           THEN WriteFileFailed(c, inflight[c].params, existing.err)
         ELSE [@ EXCEPT !.pc = "writeFile",
                        !.content = Decode(existing.data,
                                           Get(inflight[c].params,
                                               "encoding", "utf8"))
                                      \o @]]
  /\ UNCHANGED <<fs, result, watchers>>

\* await fs.promises.writeFile(fullPath, content, encoding)
WriteFileWrite(c) ==
  /\ inflight[c].pc = "writeFile"
  /\ \E written \in {WriteBytes(fs, inflight[c].fullPath,
                                Encode(inflight[c].content,
                                       Get(inflight[c].params, "encoding",
                                           "utf8")))} :
       /\ fs' = written.store
       /\ inflight' = [inflight EXCEPT ![c] =
            IF written.err # "none"
              THEN WriteFileFailed(c, inflight[c].params, written.err)
            ELSE [@ EXCEPT !.pc = "stat"]]
  /\ UNCHANGED <<result, watchers>>

\* const stat = await fs.promises.stat(fullPath), the event and the value
WriteFileStat(c) ==
  /\ inflight[c].pc = "stat"
  /\ inflight' = [inflight EXCEPT ![c] =
       IF ~ExistsSync(fs, inflight[c].fullPath)
         THEN WriteFileFailed(c, inflight[c].params, "IOFailure")
       ELSE [@ EXCEPT !.pc = "done",
               !.result = Returned("writeFile", inflight[c].params,
                 [success |-> "true", path |-> inflight[c].params.path,
                  scope |-> Get(inflight[c].params, "scope", "run"),
                  size |-> SizeAt(fs, inflight[c].fullPath.key),
                  fullPath |-> inflight[c].fullPath,
                  events |-> <<[type |-> "file:write",
                                path |-> inflight[c].params.path,
                                scope |-> Get(inflight[c].params, "scope", "run"),
                                fullPath |-> inflight[c].fullPath]>>])]]
  /\ UNCHANGED <<fs, result, watchers>>

\* The operating system reports a change of the path of watcher i while the
\* watchFile call that armed it is pending: the callback resolves the promise
\* of the call
Notify ==
  \E i \in DOMAIN watchers :
    /\ result.state = "pending"
    /\ result.watcher = i
    /\ watchers' = [watchers EXCEPT ![i] = FsWatchChange(@)]
    /\ result' = WatchResolved(result, watchers[i])
    /\ UNCHANGED <<fs, inflight>>

\* The execution engine resumes the task with what the call returned or threw
Resume ==
  /\ result.state \in {"returned", "thrown"}
  /\ result' = Blank
  /\ UNCHANGED <<fs, watchers, inflight>>

----------------------------------------------------------------------------
(* Spec: every tool, on every logical path and scope argument, with one     *)
(* content and the default options.                                         *)

\* Scope arguments: the three scopes, the read-only "auto", an unknown name,
\* and a name every object inherits
ScopeArgs == ScopeNames \cup {"auto", "other", "constructor"}

Text_z == <<"z">>

\* A mapping with no key at all
NoParams == <<>>

WriteCalls ==
  [path : PathArgs, content : {StringContent(Text_z)}, scope : ScopeArgs]
  \cup [path : PathArgs, content : {StringContent(Text_z)}]
  \cup [content : {StringContent(Text_z)}]
  \cup [path : {Path_a}]
  \cup {NoParams}

PathCalls ==
  [path : PathArgs, scope : ScopeArgs] \cup [path : PathArgs] \cup {NoParams}

ListCalls ==
  [path : PathArgs, scope : ScopeArgs, recursive : BOOLEAN] \cup {NoParams}

WatchCalls ==
  [path : {Path_a, Path_up_x, Path_empty}, scope : {"run", "other"}]
  \cup {NoParams}

WriteFile ==
  \E params \in WriteCalls : CallWriteFile(params) /\ Changes(fs') <= MaxChanges

ReadFile == \E params \in PathCalls : CallReadFile(params)

ListFiles == \E params \in ListCalls : CallListFiles(params)

DeleteFile ==
  \E params \in PathCalls : CallDeleteFile(params) /\ Changes(fs') <= MaxChanges

FileExists == \E params \in PathCalls : CallFileExists(params)

FileStat == \E params \in PathCalls : CallFileStat(params)

Mkdir ==
  \E params \in PathCalls : CallMkdir(params) /\ Changes(fs') <= MaxChanges

WatchFile == \E params \in WatchCalls : CallWatchFile(params)

Next ==
  \/ WriteFile
  \/ ReadFile
  \/ ListFiles
  \/ DeleteFile
  \/ FileExists
  \/ FileStat
  \/ Mkdir
  \/ WatchFile
  \/ VfsTree
  \/ Notify
  \/ Resume

Spec == Init /\ [][Next]_vars

----------------------------------------------------------------------------
(* Path containment and the scope roots.                                    *)

\* The absolute text is the root itself or lies beneath it
UnderRoot(str, root) == str = root \/ StartsWith(str, root \o <<"/">>)

InsideScopes(key) == \E s \in ScopeNames : IsPrefix(KeyOf(scopes[s]), key)

\* C1: every path a call resolved is its scope's root or lies beneath it, and
\* no entry outside the three scope roots is created, changed or removed.
C1_Containment ==
  /\ \A key \in DOMAIN fs \ DOMAIN Constructed : InsideScopes(key)
  /\ \A key \in DOMAIN Constructed :
       ~InsideScopes(key) => Present(fs, key) /\ fs[key] = Constructed[key]
  /\ (result.state = "returned" /\ result.fullPath.str # <<>>
        /\ result.scope \in ScopeNames)
       => UnderRoot(result.fullPath.str, scopes[result.scope])

\* The logical path has a "../" sequence
HasParentSegment(filepath) ==
  \E i \in 1..(Len(filepath) - 2) : SubSeq(filepath, i, i + 2) = <<".", ".", "/">>

PathTools == {"writeFile", "readFile", "listFiles", "deleteFile", "fileStat",
              "mkdir", "watchFile"}

\* C2: in each of the scopes run, task and global, a call whose logical path
\* contains "../" fails with PathTraversal.
C2_TraversalRejected ==
  (/\ result.state \in {"returned", "thrown"}
   /\ result.tool \in PathTools
   /\ "path" \in DOMAIN result.params
   /\ Get(result.params, "scope", "run") \in ScopeNames
   /\ HasParentSegment(result.params.path))
  => /\ result.success = "false"
     /\ result.error = "PathTraversal"

\* C3: the root directories of the three scopes exist, as directories, in
\* every state after construction.
C3_RootsKept == \A s \in ScopeNames : IsDirAt(fs, KeyOf(scopes[s]))

----------------------------------------------------------------------------
(* The envelope boundary of the tools.                                      *)

Required(tool) ==
  IF tool = "writeFile" THEN <<"path", "content">>
  ELSE IF tool \in {"listFiles", "vfsTree"} THEN <<>>
  ELSE <<"path">>

\* C7: a failure raised beneath writeFile, readFile, listFiles, deleteFile,
\* fileStat, mkdir or watchFile never leaves the tool: the call returns an
\* envelope with success false, the message of the failure, the tool's name
\* and the path and scope of the call.
C7_EnvelopeBoundary ==
  (result.tool \in PathTools /\ result.state \in {"returned", "thrown"}) =>
    /\ result.state = "thrown" => result.raised = "none"
    /\ result.raised # "none" =>
         /\ result.state = "returned"
         /\ result.success = "false"
         /\ result.error = result.raised
         /\ result.envTool = result.tool
         /\ result.envParams =
              [path  |-> Get(result.params, "path", Path_root),
               scope |-> Get(result.params, "scope",
                             IF result.tool = "readFile" THEN "auto" ELSE "run")]

C7_Witness ==
  /\ result.state = "returned"
  /\ result.tool = "watchFile"
  /\ result.raised = "NotFound"
  /\ result.success = "false"

\* C8: a call that lacks a required key returns the failure envelope of
\* MissingParameters, which names every absent key.
C8_MissingEnvelope ==
  (/\ result.state \in {"returned", "thrown"}
   /\ MissingKeys(result.params, Required(result.tool)) # <<>>)
  => /\ result.state = "returned"
     /\ result.success = "false"
     /\ result.error = "MissingParameters"
     /\ result.missing = MissingKeys(result.params, Required(result.tool))

\* C9: fileExists returns success with a boolean for every parameter mapping:
\* false when the path does not resolve, else whether the resolved path is
\* present.
C9_ExistsTotal ==
  (result.tool = "fileExists" /\ result.state \in {"returned", "thrown"}) =>
    /\ result.state = "returned"
    /\ result.success = "true"
    /\ LET r == Resolve(result.params.path, result.scope) IN
       result.exists = (r.err = "none" /\ ExistsSync(fs, r.path))

\* What a listFiles call on a path that resolves and is absent has just done
ListMissingStep ==
  (/\ Idle
   /\ result'.tool = "listFiles"
   /\ Resolve(Get(result'.params, "path", Path_root),
              Get(result'.params, "scope", "run")).err = "none"
   /\ ~VfsExists(fs, Get(result'.params, "path", Path_root),
                 Get(result'.params, "scope", "run")))
  => /\ result'.state = "returned"
     /\ result'.success = "true"
     /\ result'.files = <<>>
     /\ result'.directories = <<>>
     /\ fs' = fs

\* C16: listFiles on a directory that is not there returns success with empty
\* files and directories, and does not create the directory.
C16_ListMissing == [][ListMissingStep]_vars

\* The directory d of the task scope, which is absent, was listed with
\* recursion and the result is empty
C16_Witness ==
  /\ result.tool = "listFiles"
  /\ result.state = "returned"
  /\ result.success = "true"
  /\ result.params = [path |-> Path_d, scope |-> "task", recursive |-> TRUE]
  /\ result.files = <<>>
  /\ result.directories = <<>>
  /\ ~Present(fs, Resolve(Path_d, "task").path.key)

\* What a call with all its required keys has just done when its scope is
\* none of the three, and when its logical path is empty or blank
RejectStep ==
  (/\ Idle
   /\ result'.tool \in PathTools \ {"readFile"}
   /\ MissingKeys(result'.params, Required(result'.tool)) = <<>>)
  => LET filepath == Get(result'.params, "path", Path_root)
         scope    == Get(result'.params, "scope", "run")
     IN  /\ scope \notin ScopeNames
              => /\ result'.state = "returned"
                 /\ result'.success = "false"
                 /\ result'.error = "InvalidScope"
                 /\ fs' = fs
         /\ (scope \in ScopeNames /\ IsBlank(filepath))
              => /\ result'.state = "returned"
                 /\ result'.success = "false"
                 /\ result'.error = "EmptyPath"
                 /\ fs' = fs

\* C17: writeFile, listFiles, deleteFile, fileStat, mkdir and watchFile with
\* a scope that is none of run, task, global fail with InvalidScope, whatever
\* the path; with one of the three scopes and an empty or blank path they fail
\* with EmptyPath; the store is unchanged in both cases.
C17_Rejection == [][RejectStep]_vars

\* C19: vfsTree returns success with an entry for run, task and global in
\* every state: exists false and size 0 for a root that is missing, exists
\* true and the bytes of all files below it for a root that is there.
C19_TreeTotal ==
  (result.tool = "vfsTree" /\ result.state \in {"returned", "thrown"}) =>
    /\ result.state = "returned"
    /\ result.success = "true"
    /\ DOMAIN result.tree = ScopeNames
    /\ \A s \in ScopeNames :
         LET root == PathOf(scopes[s]) IN
         /\ result.tree[s].exists = Present(fs, root.key)
         /\ result.tree[s].size =
              IF ~Present(fs, root.key) THEN 0
              ELSE SumSizes(fs, {k \in DOMAIN fs : IsPrefix(root.key, k)})

----------------------------------------------------------------------------
(* Completion of a call.  The event loop runs every continuation that is    *)
(* ready, so the engine resumes the task once a call has settled; a change  *)
(* notification of fs.watch comes only when something changes the watched   *)
(* path, which nothing in the program promises.                             *)

SpecLive == Spec /\ WF_vars(Resume)

\* C11: every tool call that is dispatched eventually returns its envelope;
\* the call that can be left waiting is watchFile, once its watcher is armed.
C11_Completes == (result.state = "pending") ~> (result.state = "returned")

\* What a watchFile call on a path that resolves and is absent has just done
WatchMissingStep ==
  (/\ Idle
   /\ result'.tool = "watchFile"
   /\ "path" \in DOMAIN result'.params
   /\ Resolve(result'.params.path, Get(result'.params, "scope", "run")).err
        = "none"
   /\ ~VfsExists(fs, result'.params.path, Get(result'.params, "scope", "run")))
  => /\ result'.state = "returned"
     /\ result'.success = "false"
     /\ result'.error = "NotFound"
     /\ result'.envTool = "watchFile"
     /\ watchers' = watchers
     /\ fs' = fs

\* C12: watchFile on a path that does not exist in the scope returns the
\* failure envelope of NotFound, with tool watchFile, and arms no watcher; the
\* call neither stays pending nor throws.
C12_WatchMissing == [][WatchMissingStep]_vars

\* The watch of an absent path has failed while the watcher of an earlier call
\* is open, and that watcher is the only one
C12_Witness ==
  /\ result.state = "returned"
  /\ result.tool = "watchFile"
  /\ result.error = "NotFound"
  /\ result.envTool = "watchFile"
  /\ Len(watchers) = 1
  /\ ~watchers[1].closed

\* C23: no watcher armed by the watchFile tool stays open once its call has
\* returned; the tool hands no handle to its caller, so an open watcher of a
\* call that is over can be closed by nobody.
C23_NoLeak ==
  result.state # "pending" => \A i \in DOMAIN watchers : watchers[i].closed

----------------------------------------------------------------------------
(* SpecRead: one logical path held with different contents in the three     *)
(* scopes, as a file or as a directory, and read back with every scope.     *)

Text_1 == <<"1">>

Text_3 == <<"3">>

Text_5 == <<"5">>

ScopedWrites ==
  [path : {Path_a},
   content : {StringContent(Text_1), StringContent(Text_3), StringContent(Text_5)},
   scope : ScopeNames]

ScopedPaths == [path : {Path_a}, scope : ScopeNames]

ScopedReads ==
  [path : {Path_a}, scope : ScopeNames \cup {"auto"}] \cup [path : {Path_a}]

ScopedWrite == \E params \in ScopedWrites : CallWriteFile(params)

ScopedMkdir == \E params \in ScopedPaths : CallMkdir(params)

ScopedDelete == \E params \in ScopedPaths : CallDeleteFile(params)

ScopedRead == \E params \in ScopedReads : CallReadFile(params)

NextRead ==
  \/ ScopedWrite
  \/ ScopedMkdir
  \/ ScopedDelete
  \/ ScopedRead
  \/ Resume

SpecRead == Init /\ [][NextRead]_vars

\* The scope holds a regular file at the logical path
HoldsFile(store, filepath, s) ==
  LET r == Resolve(filepath, s) IN r.err = "none" /\ IsFileAt(store, r.path.key)

\* The text of that file
TextIn(store, filepath, s) ==
  Utf8Decode(store[Resolve(filepath, s).path.key].data)

\* C4: a read with scope auto returns the content and the name of the first
\* of run, task, global that holds the file, whatever the later scopes hold,
\* and fails when none of them does.
C4_AutoOrder ==
  (/\ result.tool = "readFile"
   /\ result.state = "returned"
   /\ Get(result.params, "scope", "auto") = "auto")
  => LET filepath == result.params.path
         holds(s) == HoldsFile(fs, filepath, s)
         holders  == SelectSeq(<<"run", "task", "global">>, holds)
     IN  IF holders = <<>>
           THEN result.success = "false" /\ result.error = "NotFound"
         ELSE /\ result.success = "true"
              /\ result.scope = Head(holders)
              /\ result.content = TextIn(fs, filepath, Head(holders))

\* Run has no file at the path (a directory is there), task and global hold
\* different files, and the read with auto returned the task copy
C4_Witness ==
  /\ result.tool = "readFile"
  /\ result.state = "returned"
  /\ "scope" \notin DOMAIN result.params
  /\ result.success = "true"
  /\ result.scope = "task"
  /\ IsDirAt(fs, Resolve(Path_a, "run").path.key)
  /\ HoldsFile(fs, Path_a, "global")
  /\ TextIn(fs, Path_a, "global") # result.content

\* C5: a read with a concrete scope returns that scope's file under that
\* scope's name, and fails, with NotFound when nothing is at the path, if the
\* scope does not hold the file, whatever the other scopes hold.
C5_NoFallback ==
  (/\ result.tool = "readFile"
   /\ result.state = "returned"
   /\ Get(result.params, "scope", "auto") \in ScopeNames)
  => LET filepath == result.params.path
         s == result.params.scope
     IN  IF HoldsFile(fs, filepath, s)
           THEN /\ result.success = "true"
                /\ result.scope = s
                /\ result.content = TextIn(fs, filepath, s)
         ELSE /\ result.success = "false"
              /\ ~Present(fs, Resolve(filepath, s).path.key)
                   => result.error = "NotFound"

\* The read of run failed with NotFound while task and global hold the file
C5_Witness ==
  /\ result.tool = "readFile"
  /\ result.state = "returned"
  /\ result.params = [path |-> Path_a, scope |-> "run"]
  /\ result.success = "false"
  /\ result.error = "NotFound"
  /\ HoldsFile(fs, Path_a, "task")
  /\ HoldsFile(fs, Path_a, "global")

\* The event a successful call of the tool emits
EventOf(tool) ==
  [writeFile |-> "file:write", readFile |-> "file:read",
   deleteFile |-> "file:delete"][tool]

\* C28: a writeFile, readFile or deleteFile call that succeeded has emitted
\* one event of its kind, with its logical path, the scope it resolved (the
\* scope that held the file, under auto) and the place in that scope, and the
\* storage shows its effect; a call that failed has emitted none.
C28_Events ==
  (result.state \in {"returned", "thrown"}
     /\ result.tool \in {"writeFile", "readFile", "deleteFile"})
  => IF result.success = "true"
       THEN /\ Len(result.events) = 1
            /\ result.events[1].type = EventOf(result.tool)
            /\ result.events[1].path = result.params.path
            /\ result.events[1].scope = result.scope
            /\ result.tool # "readFile"
                 => result.scope = Get(result.params, "scope", "run")
            /\ result.events[1].fullPath
                 = Resolve(result.params.path, result.scope).path
            /\ IF result.tool = "deleteFile"
                 THEN ~Present(fs, result.events[1].fullPath.key)
               ELSE IsFileAt(fs, result.events[1].fullPath.key)
     ELSE result.events = <<>>

\* A read with scope auto found the file in the task scope and emitted
\* file:read with that scope
C28_Witness ==
  /\ result.state = "returned"
  /\ result.tool = "readFile"
  /\ Get(result.params, "scope", "auto") = "auto"
  /\ result.success = "true"
  /\ result.events = <<[type |-> "file:read", path |-> Path_a, scope |-> "task",
                        fullPath |-> Resolve(Path_a, "task").path]>>

\* Why a probe of scope s for the path fails: the error of the resolution,
\* the absence of the path, or the error of reading what is there
ProbeReason(store, filepath, s) ==
  LET r == Resolve(filepath, s)
  IN  IF r.err # "none" THEN r.err
      ELSE IF ~ExistsSync(store, r.path) THEN "NotFound"
      ELSE "IOFailure"

\* C30: a read with scope auto of a path that no scope holds as a file fails
\* with NotFound and carries one reason per scope, for run, task and global
\* in that order, whatever made the earlier probes fail.
C30_AutoMiss ==
  (/\ result.tool = "readFile"
   /\ result.state = "returned"
   /\ Get(result.params, "scope", "auto") = "auto"
   /\ \A s \in ScopeNames : ~HoldsFile(fs, result.params.path, s))
  => /\ result.success = "false"
     /\ result.error = "NotFound"
     /\ result.searched =
          [i \in 1..3 |->
             LET s == <<"run", "task", "global">>[i]
             IN  [scope |-> s,
                  reason |-> ProbeReason(fs, result.params.path, s)]]

\* The run scope holds a directory at the path, which cannot be read, and the
\* probes of task and global were still made
C30_Witness ==
  /\ result.tool = "readFile"
  /\ result.state = "returned"
  /\ result.error = "NotFound"
  /\ result.searched = <<[scope |-> "run", reason |-> "IOFailure"],
                         [scope |-> "task", reason |-> "NotFound"],
                         [scope |-> "global", reason |-> "NotFound"]>>

----------------------------------------------------------------------------
(* SpecWatch: a caller that takes the TaskVFS from getVFS() and watches one  *)
(* logical path in the three scopes, keeps the handles and closes them, any *)
(* number of times, while the paths are made and removed.                   *)

\* vfs.watch(filepath, scope, onEvent), which returns the handle or throws
Watch ==
  /\ Idle
  /\ \E filepath \in {Path_a, Path_blank}, scope \in ScopeNames :
     \E r \in {VfsWatch(fs, filepath, scope)} :
       IF r.err # "none"
         THEN /\ result' = [Blank EXCEPT !.state = "thrown", !.tool = "watch",
                                         !.error = r.err, !.raised = r.err]
              /\ UNCHANGED watchers
       ELSE /\ Len(watchers) < MaxWatchers
            /\ watchers' = Append(watchers, r.watcher)
            /\ result' = [Blank EXCEPT !.state = "returned", !.tool = "watch",
                                       !.watcher = Len(watchers) + 1]
  /\ UNCHANGED <<fs, inflight>>

\* The operating system reports a change of the path of watcher i
Change ==
  \E i \in DOMAIN watchers :
    /\ watchers[i].notified < MaxEvents
    /\ watchers' = [watchers EXCEPT ![i] = FsWatchChange(@)]
    /\ UNCHANGED <<fs, result, inflight>>

\* handle.close() on the handle of watcher i
Close ==
  /\ Idle
  /\ \E i \in DOMAIN watchers :
       /\ watchers' = [watchers EXCEPT ![i] = WatchClose(@)]
       /\ result' = [Blank EXCEPT !.state = "returned", !.tool = "close",
                                  !.watcher = i]
  /\ UNCHANGED <<fs, inflight>>

NextWatch ==
  \/ ScopedMkdir
  \/ ScopedDelete
  \/ Watch
  \/ Change
  \/ Close
  \/ Resume

SpecWatch == Init /\ [][NextWatch]_vars

\* What one step does to the subscriptions
WatchStep ==
  /\ \A i \in DOMAIN watchers :
       /\ i \in DOMAIN watchers'
       /\ watchers'[i].calls - watchers[i].calls
            = watchers'[i].notified - watchers[i].notified
       /\ watchers[i].closed => watchers'[i] = watchers[i]
  /\ (Idle /\ result'.tool = "watch" /\ result'.state = "returned")
       => /\ watchers' = Append(watchers, watchers'[Len(watchers')])
          /\ result'.watcher = Len(watchers')
          /\ ~watchers'[Len(watchers')].closed
          /\ watchers'[Len(watchers')].calls = 0
  /\ (Idle /\ result'.tool = "close")
       => /\ result'.state = "returned"
          /\ watchers'[result'.watcher].closed
          /\ watchers'[result'.watcher].calls = watchers[result'.watcher].calls

\* C13: a successful watch returns a handle whose watcher is open; an open
\* watcher calls onEvent once for each change notification; close() closes
\* it, after which onEvent is not called again and the watcher stays closed,
\* and close() returns without failing on an open and on a closed watcher.
C13_Lifecycle == [][WatchStep]_vars

\* A watcher that was notified as often as the bound allows has been closed,
\* and close() has just returned
C13_Witness ==
  /\ result.tool = "close"
  /\ result.state = "returned"
  /\ watchers[result.watcher].closed
  /\ watchers[result.watcher].calls = MaxEvents

----------------------------------------------------------------------------
(* SpecTree: files and directories two levels deep in two scopes, made,     *)
(* probed and deleted.                                                      *)

TreePaths == {Path_a, Path_d, Path_d_a, Path_d_b, Path_root}

TreeWrites ==
  [path : TreePaths, content : {StringContent(Text_z)},
   scope : {"run", "task"}]

TreeCalls == [path : TreePaths, scope : {"run", "task"}]

TreeWrite == \E params \in TreeWrites : CallWriteFile(params)

TreeMkdir == \E params \in TreeCalls : CallMkdir(params)

TreeDelete == \E params \in TreeCalls : CallDeleteFile(params)

TreeExists == \E params \in TreeCalls : CallFileExists(params)

NextTree ==
  \/ TreeWrite
  \/ TreeMkdir
  \/ TreeDelete
  \/ TreeExists
  \/ Resume

SpecTree == Init /\ [][NextTree]_vars

\* What a deleteFile call that has just returned did to the disk
DeleteStep ==
  (result.state = "idle" /\ result'.state = "returned"
     /\ result'.tool = "deleteFile")
  => LET filepath == result'.params.path
         scope    == result'.params.scope
         key      == Resolve(filepath, scope).path.key
     IN  IF ~Present(fs, key)
           THEN /\ result'.success = "false"
                /\ result'.error = "NotFound"
                /\ fs' = fs
         ELSE IF IsDirAt(fs, key)
           THEN /\ result'.success = "true"
                /\ DOMAIN fs' = {k \in DOMAIN fs : ~IsPrefix(key, k)}
                /\ \A k \in DOMAIN fs' : fs'[k] = fs[k]
                /\ \A q \in TreePaths :
                     IsPrefix(key, Resolve(q, scope).path.key)
                       => ~VfsExists(fs', q, scope)
         ELSE /\ result'.success = "true"
              /\ DOMAIN fs' = DOMAIN fs \ {key}
              /\ \A k \in DOMAIN fs' : fs'[k] = fs[k]

\* C10: deleteFile on an absent path fails with NotFound and changes nothing;
\* on a directory it removes the directory and everything below it, so that
\* exists is false for each of them; on a file it removes that entry alone.
C10_Delete == [][DeleteStep]_vars

\* The file d/a was deleted: its sibling d/b and its parent d are in place
C10_Witness ==
  /\ result.state = "returned"
  /\ result.tool = "deleteFile"
  /\ result.success = "true"
  /\ result.params = [path |-> Path_d_a, scope |-> "run"]
  /\ IsDirAt(fs, Resolve(Path_d, "run").path.key)
  /\ IsFileAt(fs, Resolve(Path_d_b, "run").path.key)
  /\ ~Present(fs, Resolve(Path_d_a, "run").path.key)
  /\ IsFileAt(fs, Resolve(Path_d_a, "task").path.key)

\* A mkdir call with a path that resolves has just returned
MkdirCall ==
  /\ Idle
  /\ result'.tool = "mkdir"
  /\ result'.state = "returned"
  /\ Resolve(result'.params.path, result'.params.scope).err = "none"

\* The call succeeded and made the directory and the missing ones above it,
\* kept everything that was there, and the same call made again succeeds and
\* leaves the store as it is
MkdirIdempotent ==
  LET key == Resolve(result'.params.path, result'.params.scope).path.key IN
  /\ result'.success = "true"
  /\ DOMAIN fs' = DOMAIN fs \cup Prefixes(key)
  /\ \A k \in DOMAIN fs : fs'[k] = fs[k]
  /\ \A k \in Prefixes(key) : fs'[k].isDir
  /\ HostMkdir(fs', result'.params) = [result |-> result', store |-> fs']

\* C15 as stated: mkdir with a valid path and scope succeeds, creates the
\* missing intermediate directories, keeps the content that is there, and
\* succeeds again without changing the store.
C15_MkdirTwice == [][MkdirCall => MkdirIdempotent]_vars

\* C15, amended: so it is unless a regular file stands at the path or at one
\* of its ancestors; then mkdir fails with IOFailure and changes nothing.
C15_MkdirTwiceOnDirectories ==
  [][MkdirCall =>
       IF \E k \in Prefixes(Resolve(result'.params.path,
                                    result'.params.scope).path.key) :
            IsFileAt(fs, k)
         THEN /\ result'.success = "false"
              /\ result'.error = "IOFailure"
              /\ fs' = fs
       ELSE MkdirIdempotent]_vars

\* mkdir of d succeeded on the directory d that holds the file d/a
C15_Witness ==
  /\ result.tool = "mkdir"
  /\ result.state = "returned"
  /\ result.success = "true"
  /\ result.params = [path |-> Path_d, scope |-> "run"]
  /\ IsFileAt(fs, Resolve(Path_d_a, "run").path.key)

----------------------------------------------------------------------------
(* SpecList: a tree three levels deep in the run scope, and a directory     *)
(* whose name is a space, listed at each level with and without recursion.  *)

NextList ==
  \/ \E params \in [path : {Path_a, Path_d_a, Path_d_e_f},
                     content : {StringContent(Text_z)}] : CallWriteFile(params)
  \/ \E params \in [path : {Path_d, Path_d_e, Path_blank_x}] : CallMkdir(params)
  \/ \E params \in [path : {Path_a, Path_d, Path_d_e}] : CallDeleteFile(params)
  \/ \E params \in [path : {Path_root, Dot, Path_d, Path_d_e, Path_a},
                     recursive : BOOLEAN] \cup {NoParams} :
        CallListFiles(params)
  \/ Resume

SpecList == Init /\ [][NextList]_vars

\* The store's key of an item of a listing
ItemKeys(items) == {KeyOf(items[i].fullPath) : i \in DOMAIN items}

\* C14: a successful listing with recursive true holds every file below the
\* listed directory, at any depth, in files and every directory below it in
\* directories.
C14_RecursiveComplete ==
  (/\ result.tool = "listFiles"
   /\ result.state = "returned"
   /\ result.success = "true"
   /\ Get(result.params, "recursive", FALSE))
  => LET top == Resolve(result.path, result.scope).path.key IN
     \A k \in DOMAIN fs :
       (IsPrefix(top, k) /\ k # top) =>
         IF fs[k].isDir THEN k \in ItemKeys(result.directories)
         ELSE k \in ItemKeys(result.files)

\* No two items of a collection of a listing name the same entry
Distinct(items) ==
  \A i, j \in DOMAIN items : i # j => items[i].fullPath # items[j].fullPath

\* C22: a successful listing with recursive true holds each file once in
\* files and each directory once in directories.
C22_NoDuplicates ==
  (/\ result.tool = "listFiles"
   /\ result.state = "returned"
   /\ result.success = "true"
   /\ Get(result.params, "recursive", FALSE))
  => Distinct(result.files) /\ Distinct(result.directories)

\* C29: the total of a successful listing is the number of its files plus
\* the number of its directories, with and without recursion.
C29_Total ==
  (/\ result.tool = "listFiles"
   /\ result.state = "returned"
   /\ result.success = "true")
  => result.total = Len(result.files) + Len(result.directories)

----------------------------------------------------------------------------
(* SpecExport: the path d of the run scope as a file, as an empty directory *)
(* and as a directory with a file, exported to a root outside the ecosystem *)
(* and to the root of the global scope.                                     *)

NextExport ==
  \/ \E params \in [path : {Path_d, Path_d_a},
                     content : {StringContent(Text_z), StringContent(Text_1)}] :
        CallWriteFile(params)
  \/ CallMkdir([path |-> Path_d])
  \/ CallDeleteFile([path |-> Path_d])
  \/ \E osJsVFSPath \in {<<"/", "x">>, scopes.global} : CallExport(osJsVFSPath)
  \/ Resume

SpecExport == Init /\ [][NextExport]_vars

\* What an export that has just succeeded did to the disk
ExportStep ==
  (Idle /\ result'.tool = "exportToOSjs" /\ result'.state = "returned")
  => /\ \A s \in ScopeNames : \A k \in DOMAIN fs :
          IsPrefix(KeyOf(scopes[s]), k) =>
            LET copy == ExportTarget(result'.params.osJsVFSPath, s)
                          \o SubSeq(k, Len(KeyOf(scopes[s])) + 1, Len(k))
            IN  Present(fs', copy) /\ fs'[copy] = fs[k]
     /\ \A k \in DOMAIN fs : Present(fs', k)
     /\ \A k \in DOMAIN fs' : InsideScopes(k) => Present(fs, k) /\ fs'[k] = fs[k]

\* C18: after a successful export every file and directory under an existing
\* scope root is at the same relative path under externalRoot/tasks/<taskId>/
\* <scope>, a file with the same content; what was at the destination before
\* is still there; the scopes are unchanged.
C18_Export == [][ExportStep]_vars

\* An export makes no more directories than the scopes held when it started,
\* and the components of externalRoot/tasks/<taskId> above them
ExportBoundedStep ==
  (Idle /\ result'.tool = "exportToOSjs")
  => Cardinality({k \in DOMAIN fs' \ DOMAIN fs : fs'[k].isDir})
       <= Cardinality({k \in DOMAIN fs : fs[k].isDir /\ InsideScopes(k)})
            + Len(Front(ExportTarget(result'.params.osJsVFSPath, "run")))

\* C24: for every externalRoot, one inside a scope root included, the export
\* ends after copying a number of directories bounded by the number of
\* directories the scopes held when the call started.
C24_ExportBounded == [][ExportBoundedStep]_vars

----------------------------------------------------------------------------
(* SpecAppend: two writeFile calls with append: true on one path of the run *)
(* scope that are started without awaiting one another, each advancing from *)
(* await to await in any order, on a file that a first write left there.    *)

Callers == {1, 2}

NextAppend ==
  \/ /\ \A c \in Callers : inflight[c].pc = "none"
     /\ CallWriteFile([path |-> Path_a, content |-> StringContent(Text_z)])
  \/ \E c \in Callers, text \in {Text_1, Text_3} :
       WriteFileBegin(c, [path |-> Path_a, content |-> StringContent(text),
                          append |-> TRUE])
  \/ \E c \in Callers : WriteFileRead(c)
  \/ \E c \in Callers : WriteFileWrite(c)
  \/ \E c \in Callers : WriteFileStat(c)
  \/ Resume

SpecAppend == Init /\ [][NextAppend]_vars

\* The decoded content of the file the two calls name
Appended == Decode(fs[inflight[1].fullPath.key].data, "utf8")

\* C20: when two append calls on a file with content e have both returned
\* success, the file holds e followed by both contents, in one order or the
\* other
C20_NoLostAppend ==
  (\A c \in Callers : /\ inflight[c].pc = "done"
                      /\ inflight[c].result.success = "true"
                      /\ inflight[c].before # <<>>)
    => \E i, j \in Callers :
         /\ i # j
         /\ Appended = inflight[i].before
                         \o inflight[i].params.content.text
                         \o inflight[j].params.content.text

----------------------------------------------------------------------------
(* SpecWrite: writes in two scopes to a path that is absent, a file or a    *)
(* directory, below a parent that is absent, a file or a directory, and to  *)
(* a path written with a separator at its end.                              *)

NextWrite ==
  \/ \E path \in {Path_d, Path_d_a, Path_d_a_sep, Path_d_e_f},
        scope \in {"run", "task"} :
       CallWriteFile([path |-> path, content |-> StringContent(Text_z),
                      scope |-> scope])
  \/ \E path \in {Path_d, Path_d_a}, scope \in {"run", "task"} :
       CallMkdir([path |-> path, scope |-> scope])
  \/ \E path \in {Path_d, Path_d_a}, scope \in {"run", "task"} :
       CallDeleteFile([path |-> path, scope |-> scope])
  \/ Resume

SpecWrite == Init /\ [][NextWrite]_vars

\* A writeFile call that returns the failure envelope leaves the disk as it was
WriteFailedStep ==
  (/\ Idle
   /\ result'.tool = "writeFile"
   /\ result'.success = "false")
    => fs' = fs

\* C21: a write that ends in failure has created, modified and removed
\* nothing, parent directories included
C21_FailedWriteKeeps == [][WriteFailedStep]_vars

----------------------------------------------------------------------------
(* SpecFrame: every tool on one path, on the scope root and on a path that   *)
(* leaves the root for its sibling, in each scope, while the three scopes    *)
(* hold files and directories of their own.                                  *)

NextFrame ==
  \/ \E path \in {Path_a, Path_up_fsx}, scope \in ScopeNames :
       CallWriteFile([path |-> path, content |-> StringContent(Text_z),
                      scope |-> scope])
  \/ \E path \in {Path_a, Path_root}, scope \in ScopeNames :
       CallMkdir([path |-> path, scope |-> scope])
  \/ \E path \in {Path_a, Path_root}, scope \in ScopeNames :
       CallDeleteFile([path |-> path, scope |-> scope])
  \/ \E params \in [path : {Path_a}, scope : ScopeNames \cup {"auto"}] :
       CallReadFile(params)
  \/ \E params \in [path : {Path_root}, scope : ScopeNames,
                     recursive : {TRUE}] :
       CallListFiles(params)
  \/ \E params \in [path : {Path_a}, scope : ScopeNames] :
       CallFileExists(params)
  \/ \E params \in [path : {Path_a}, scope : ScopeNames] :
       CallFileStat(params)
  \/ VfsTree
  \/ Resume

SpecFrame == Init /\ [][NextFrame]_vars

\* What a scope holds: its root and everything below it
ScopeTree(store, s) ==
  [k \in {q \in DOMAIN store : IsPrefix(KeyOf(scopes[s]), q)} |-> store[k]]

FrameStep ==
  /\ (Idle /\ result'.tool \in {"writeFile", "deleteFile", "mkdir"})
       => \A s \in ScopeNames \ {Get(result'.params, "scope", "run")} :
            ScopeTree(fs', s) = ScopeTree(fs, s)
  /\ (Idle /\ result'.tool \in {"readFile", "listFiles", "fileExists",
                                "fileStat", "vfsTree"})
       => fs' = fs

\* C25: a writeFile, deleteFile or mkdir addressed to one scope leaves what
\* the other two scopes hold unchanged; readFile, listFiles, fileExists,
\* fileStat and vfsTree change nothing.
C25_Frame == [][FrameStep]_vars

\* A delete in the task scope has succeeded and the run and global scopes
\* still hold their file of the same logical path
C25_Witness ==
  /\ result.state = "returned"
  /\ result.tool = "deleteFile"
  /\ result.success = "true"
  /\ result.params = [path |-> Path_a, scope |-> "task"]
  /\ ~VfsExists(fs, Path_a, "task")
  /\ HoldsFile(fs, Path_a, "run")
  /\ HoldsFile(fs, Path_a, "global")

----------------------------------------------------------------------------
(* SpecPeers: other TaskVFS instances on the same ecosystem root, one of     *)
(* another task, one of the same task in another run and one whose task     *)
(* identifier is written with a separator, writing and deleting the same     *)
(* logical path while the task does.  Their calls return to their own        *)
(* callers, so they show in fs alone.                                        *)

Peers ==
  {[taskId |-> <<"U">>, runId |-> runId],
   [taskId |-> taskId, runId |-> <<"S">>],
   [taskId |-> taskId \o <<"/">>, runId |-> runId]}

\* this.scopes of each peer, and its _resolvePath of the logical path a
PeerScopes == [p \in Peers |-> ScopesOf(ecosystemPath, p.taskId, p.runId)]

PeerResolve ==
  [p \in Peers |-> [s \in ScopeNames |-> ResolveIn(PeerScopes[p], Path_a, s)]]

\* writeFile(filepath, text, scope) of a peer, whose _resolvePath gave r
PeerWriteFile(store, r, text) ==
  IF r.err # "none" THEN [err |-> r.err, store |-> store]
  ELSE
  With(IF ~ExistsSync(store, PathDirname(r.path))
         THEN MkdirRecursive(store, PathDirname(r.path))
       ELSE [err |-> "none", store |-> store], LAMBDA made :
  IF made.err # "none" THEN made
  ELSE WriteBytes(made.store, r.path, Encode(text, "utf8")))

\* deleteFile(filepath, scope) of a peer, whose _resolvePath gave r
PeerDeleteFile(store, r) ==
  IF r.err # "none" THEN [err |-> r.err, store |-> store]
  ELSE IF ~ExistsSync(store, r.path) THEN [err |-> "NotFound", store |-> store]
  ELSE [err |-> "none", store |-> RemoveTree(store, r.path.key)]

NextPeers ==
  \/ \E p \in Peers :
       /\ fs' = EnsureDirectoriesOf(fs, PeerScopes[p])
       /\ UNCHANGED <<result, watchers, inflight>>
  \/ \E p \in Peers, scope \in ScopeNames :
       /\ fs' = PeerWriteFile(fs, PeerResolve[p][scope], Text_1).store
       /\ UNCHANGED <<result, watchers, inflight>>
  \/ \E p \in Peers, scope \in ScopeNames :
       /\ fs' = PeerDeleteFile(fs, PeerResolve[p][scope]).store
       /\ UNCHANGED <<result, watchers, inflight>>
  \/ \E scope \in ScopeNames :
       CallWriteFile([path |-> Path_a, content |-> StringContent(Text_z),
                      scope |-> scope])
  \/ \E scope \in ScopeNames :
       CallDeleteFile([path |-> Path_a, scope |-> scope])
  \/ \E scope \in ScopeNames :
       CallReadFile([path |-> Path_a, scope |-> scope])
  \/ Resume

SpecPeers == Init /\ [][NextPeers]_vars

\* The scopes a peer does not share with the task's instance: run and task
\* when the task identifiers differ, run when only the run identifiers do
Private(p) == IF p.taskId # taskId THEN {"run", "task"} ELSE {"run"}

\* C26: a file a peer writes to global is read by the task's instance at the
\* same logical path; a write or delete of a peer in a scope it does not
\* share changes nothing that the task's instance holds in such a scope.
C26_Namespaced ==
  \A p \in Peers :
    /\ LET w == PeerWriteFile(fs, PeerResolve[p]["global"], Text_1)
           r == HostReadFile(w.store, [path |-> Path_a, scope |-> "global"])
       IN  w.err = "none" => r.success = "true" /\ r.content = Text_1
    /\ \A s, t \in Private(p) :
         /\ ScopeTree(PeerWriteFile(fs, PeerResolve[p][s], Text_1).store, t)
              = ScopeTree(fs, t)
         /\ ScopeTree(PeerDeleteFile(fs, PeerResolve[p][s]).store, t)
              = ScopeTree(fs, t)

----------------------------------------------------------------------------
(* SpecRoundTrip: strings and a structured value written under utf8 and     *)
(* hex, with and without append, and read back.                             *)

Text_61 == <<"6", "1">>

Text_surrogate == <<LoneSurrogate>>

Contents == {StringContent(Text_z), StringContent(Text_61),
             StringContent(Text_surrogate), ArrayContent}

TripPaths == {Path_a, Path_d_a}

TripWrites ==
  [path : TripPaths, content : Contents, scope : ScopeNames]
  \cup [path : TripPaths, content : Contents, scope : ScopeNames,
        encoding : {"hex"}]
  \cup [path : TripPaths, content : {StringContent(Text_z)}, scope : ScopeNames,
        append : {TRUE}]
  \cup [path : {Path_a}, content : {StringContent(Text_surrogate)},
        scope : {"run"}, append : {TRUE}]
  \cup [path : {Path_a}, content : {StringContent(Text_61)},
        scope : {"run"}, encoding : {"hex"}, append : {TRUE}]

TripReads ==
  [path : TripPaths, scope : ScopeNames]
  \cup [path : TripPaths, scope : ScopeNames, encoding : {"hex"}]

TripDeletes == [path : {Path_a, Path_d}, scope : ScopeNames]

TripWrite ==
  \E params \in TripWrites :
    CallWriteFile(params) /\ Changes(fs') <= MaxChanges /\ Fits(fs')

TripRead == \E params \in TripReads : CallReadFile(params)

TripDelete == \E params \in TripDeletes : CallDeleteFile(params)

NextRoundTrip ==
  \/ TripWrite
  \/ TripRead
  \/ TripDelete
  \/ Resume

SpecRoundTrip == Init /\ [][NextRoundTrip]_vars

\* The text a content value is written as
WrittenText(content) ==
  IF content.type = "object" THEN JSONStringify(content) ELSE content.text

\* A write without append has just succeeded
WroteWhole ==
  /\ result.state = "returned"
  /\ result.tool = "writeFile"
  /\ result.success = "true"
  /\ ~Get(result.params, "append", FALSE)

\* readFile of the path just written, in the same scope and encoding
ReadBack ==
  HostReadFile(fs, [k \in DOMAIN result.params \ {"content", "append"} |->
                      result.params[k]])

\* The text survives the encoding: no lone surrogate under utf8, an even
\* number of lower-case hexadecimal digits under hex
Faithful(text, encoding) ==
  IF encoding = "hex"
    THEN Len(text) % 2 = 0 /\ \A i \in 1..Len(text) : text[i] \in HexDigits
  ELSE \A i \in 1..Len(text) : text[i] # LoneSurrogate

\* C6 as stated: after a successful write without append, a read of the path
\* in the same scope returns the content that was written and the same scope.
C6_RoundTrip ==
  (WroteWhole /\ "encoding" \notin DOMAIN result.params) =>
    /\ ReadBack.success = "true"
    /\ ReadBack.scope = result.params.scope
    /\ ReadBack.content = WrittenText(result.params.content)

\* C6, amended: the read succeeds in the same scope and returns the bytes of
\* the written text decoded again, which is the written text whenever the
\* text survives the encoding of the two calls.
C6_RoundTripFaithful ==
  WroteWhole =>
    LET text     == WrittenText(result.params.content)
        encoding == Get(result.params, "encoding", "utf8")
    IN  /\ ReadBack.success = "true"
        /\ ReadBack.scope = result.params.scope
        /\ ReadBack.content = Decode(Encode(text, encoding), encoding)
        /\ Faithful(text, encoding) => ReadBack.content = text

\* A hexadecimal text was written under hex and read back as itself
C6_Witness ==
  /\ WroteWhole
  /\ result.params.content = StringContent(Text_61)
  /\ Get(result.params, "encoding", "utf8") = "hex"
  /\ ReadBack.content = Text_61
  /\ result.size = 1

\* The text a successful write leaves in the file, as the claim has it: the
\* decoded text that was there followed by the new text when append is set
\* and the file was there, the new text alone otherwise
Combined ==
  LET key      == result'.fullPath.key
      encoding == Get(result'.params, "encoding", "utf8")
      text     == WrittenText(result'.params.content)
  IN  IF Get(result'.params, "append", FALSE) /\ IsFileAt(fs, key)
        THEN Decode(fs[key].data, encoding) \o text
      ELSE text

WriteDone ==
  Idle /\ result'.tool = "writeFile" /\ result'.success = "true"

\* C27 as stated: after a successful write the file holds the existing
\* content followed by the new content (append to a file that is there), or
\* exactly the new content (append to an absent file, or no append), and the
\* call reports the size of that content.
C27_Append ==
  [][WriteDone =>
       /\ Decode(fs'[result'.fullPath.key].data,
                 Get(result'.params, "encoding", "utf8")) = Combined
       /\ result'.size = Len(fs'[result'.fullPath.key].data)]_vars

\* C27, amended: the file holds the bytes of that text under the encoding of
\* the call, the reported size is their number, and the file reads back as
\* that text whenever the new text survives the encoding.
C27_AppendEncoded ==
  [][WriteDone =>
       LET key      == result'.fullPath.key
           encoding == Get(result'.params, "encoding", "utf8")
       IN  /\ fs'[key].data = Encode(Combined, encoding)
           /\ result'.size = Len(fs'[key].data)
           /\ Faithful(WrittenText(result'.params.content), encoding)
                => Decode(fs'[key].data, encoding) = Combined]_vars

\* An append of z under utf8 to a file of one byte written under hex
C27_Witness ==
  /\ result.state = "returned"
  /\ result.tool = "writeFile"
  /\ result.success = "true"
  /\ Get(result.params, "append", FALSE)
  /\ result.params.content = StringContent(Text_z)
  /\ result.size = 2
  /\ Decode(fs[result.fullPath.key].data, "utf8") = <<"a", "z">>

====
